---- MODULE Spec2Model ----
(***************************************************************************)
(* Model of the power telemetry agent (package main of power-agent):       *)
(* pollOnce, the four parsers, run, the RWMutex-guarded cache, the         *)
(* background poller driven by a time.Ticker and the /power handler.       *)
(*                                                                         *)
(* Go strings that the code inspects character by character (the output    *)
(* of vcgencmd) are sequences of one-character strings.  Error messages    *)
(* are sequences of their formatted parts; the empty string is <<>>.       *)
(* A float64 is a decimal [m, e] standing for m * 10^(-e), normalised.     *)
(* Time is counted in abstract units; time 0 is Go's zero time.Time.       *)
(* The downstream consumers (the caching proxies and the eventing          *)
(* forwarder) are modelled at the end, each with a specification of its    *)
(* own.                                                                    *)
(***************************************************************************)
EXTENDS Integers, Sequences, FiniteSets, TLC

\* ------------------------------------------------------------------ bounds
\* total number of poll cycles the model lets start (initial poll included)
MaxCycles == 2
\* longest natural running time of one vcgencmd process
MaxDur == 3
\* value given to the -poll-timeout flag
Timeout == 5
\* value given to the -poll-interval flag
PollInterval == 4
\* number of concurrent /power requests
NumReaders == 1
\* number of deviations of the vcgencmd processes (a slow process; a non-zero
\* exit or a malformed output) in one run of the agent
MaxFaults == 1
\* number of concurrent requests to a caching proxy
NumHandlers == 2
\* number of requests a caching proxy accepts in one run
MaxRequests == 2
\* last second of the clock of a caching proxy
MaxClock == 6
\* number of iterations of the forwarder's loop
MaxIter == 3

\* With(e, F) is F(e); e is evaluated once, however often F uses its argument
With(e, F(_)) == CHOOSE y \in {F(x) : x \in {e}} : TRUE

\* ------------------------------------------------------- strings (package strings)
Digits == {"0", "1", "2", "3", "4", "5", "6", "7", "8", "9"}

DigitVal(c) ==
    CASE c = "0" -> 0 [] c = "1" -> 1 [] c = "2" -> 2 [] c = "3" -> 3
      [] c = "4" -> 4 [] c = "5" -> 5 [] c = "6" -> 6 [] c = "7" -> 7
      [] c = "8" -> 8 [] c = "9" -> 9

HexDigits == Digits \cup {"a", "b", "c", "d", "e", "f", "A", "B", "C", "D", "E", "F"}

HexVal(c) ==
    CASE c \in Digits -> DigitVal(c)
      [] c \in {"a", "A"} -> 10 [] c \in {"b", "B"} -> 11 [] c \in {"c", "C"} -> 12
      [] c \in {"d", "D"} -> 13 [] c \in {"e", "E"} -> 14 [] c \in {"f", "F"} -> 15

WhiteSpace == {" ", "\n", "\t", "\r"}

HasPrefix(s, p) == Len(s) >= Len(p) /\ SubSeq(s, 1, Len(p)) = p

HasSuffix(s, p) == Len(s) >= Len(p) /\ SubSeq(s, Len(s) - Len(p) + 1, Len(s)) = p

TrimPrefix(s, p) == IF HasPrefix(s, p) THEN SubSeq(s, Len(p) + 1, Len(s)) ELSE s

TrimSuffix(s, p) == IF HasSuffix(s, p) THEN SubSeq(s, 1, Len(s) - Len(p)) ELSE s

\* strings.TrimSpace(s): s without its leading and trailing white space
TrimSpace(s) ==
    LET keep == {i \in 1..Len(s) : s[i] \notin WhiteSpace}
    IN  IF keep = {} THEN <<>>
        ELSE SubSeq(s, CHOOSE i \in keep : \A j \in keep : i <= j,
                       CHOOSE i \in keep : \A j \in keep : i >= j)

\* strings.Index(s, sep) for a one-character separator, counted from 1; 0 if absent
Index(s, sep) ==
    LET at == {i \in 1..Len(s) : s[i] = sep}
    IN  IF at = {} THEN 0 ELSE CHOOSE i \in at : \A j \in at : i <= j

\* strings.Split(s, sep) for a one-character separator: the parts between
\* the occurrences of sep, Count(sep)+1 of them
Split(s, sep) ==
    LET at == {i \in 1..Len(s) : s[i] = sep}
        n  == Cardinality(at)
        pos[k \in 0..(n + 1)] ==
            IF k = 0 THEN 0
            ELSE IF k = n + 1 THEN Len(s) + 1
            ELSE CHOOSE i \in at : Cardinality({j \in at : j < i}) = k - 1
    IN  [k \in 1..(n + 1) |-> SubSeq(s, pos[k - 1] + 1, pos[k] - 1)]

\* ------------------------------------------------------- numbers (package strconv, math)
Pow10(n) == 10 ^ n

\* the decimal m * 10^(-e) with the trailing zeros of the fraction removed
Norm(m, e) ==
    LET z == CHOOSE k \in 0..e : m % Pow10(k) = 0 /\ (k = e \/ m % Pow10(k + 1) # 0)
    IN  [m |-> m \div Pow10(z), e |-> e - z]

ZeroF == [m |-> 0, e |-> 0]

\* the number written by the decimal digits s
DigitsToNat(s) ==
    LET f[i \in 0..Len(s)] == IF i = 0 THEN 0 ELSE 10 * f[i - 1] + DigitVal(s[i])
    IN  f[Len(s)]

RemoveDots(s) == SelectSeq(s, LAMBDA c : c # ".")

\* the value of the sign neg, the digits digs and the fraction of body
ParseDecimal(neg, body, digs) ==
    LET ok  == /\ digs # <<>>
               /\ \A i \in 1..Len(digs) : digs[i] \in Digits
               /\ Len(body) - Len(digs) <= 1
        e   == IF Index(body, ".") = 0 THEN 0 ELSE Len(body) - Index(body, ".")
    IN  IF ok THEN [ok |-> TRUE,
                    v |-> With(DigitsToNat(digs), LAMBDA mag : Norm(IF neg THEN 0 - mag ELSE mag, e))]
        ELSE [ok |-> FALSE, v |-> ZeroF]

\* strconv.ParseFloat(s, 64) on the decimal syntax [+-]digits[.digits]:
\* ok is FALSE for a syntax error (err # nil), else v is the value
ParseFloat(s) ==
    With(IF s # <<>> /\ Head(s) \in {"+", "-"} THEN Tail(s) ELSE s,
         LAMBDA body : With(RemoveDots(body),
                            LAMBDA digs : ParseDecimal(s # <<>> /\ Head(s) = "-", body, digs)))

\* math.Round(x) for x = n / d (d > 0): nearest integer, halves away from zero
RoundDiv(n, d) ==
    LET a == IF n >= 0 THEN n ELSE 0 - n
        q == a \div d
        r == a % d
        h == IF r >= d - r THEN q + 1 ELSE q
    IN  IF n >= 0 THEN h ELSE 0 - h

\* low 28 bits of the hexadecimal number s (enough for every bit the code tests)
HexToNat(s) ==
    LET f[i \in 0..Len(s)] ==
            IF i = 0 THEN 0 ELSE (16 * f[i - 1] + HexVal(s[i])) % 268435456
    IN  f[Len(s)]

\* number of digits of s from its first non-zero digit on
SigDigits(s) ==
    LET nz == {i \in 1..Len(s) : s[i] # "0"}
    IN  IF nz = {} THEN 0 ELSE Len(s) + 1 - (CHOOSE i \in nz : \A j \in nz : i <= j)

\* strconv.ParseUint(s, 16, 64): syntax error on an empty string or a
\* non-hex character, range error above 2^64-1 (more than 16 significant digits)
ParseUint16(s) ==
    LET ok == /\ s # <<>>
              /\ \A i \in 1..Len(s) : s[i] \in HexDigits
              /\ SigDigits(s) <= 16
    IN  IF ok THEN [ok |-> TRUE, v |-> HexToNat(s)] ELSE [ok |-> FALSE, v |-> 0]

\* Bit as it would be if the has-occurred bits 16.. were read instead of the
\* current-state bits
BitOccurred(val, k) == (val \div (2 ^ (k + 16))) % 2 = 1

\* val & (1 << k) != 0
Bit(val, k) == (val \div (2 ^ k)) % 2 = 1

\* ------------------------------------------------------- the parsers
PfxTemp == <<"t", "e", "m", "p", "=">>
SfxTemp == <<"'", "C">>
PfxVolt == <<"v", "o", "l", "t", "=">>
SfxVolt == <<"V">>
PfxThrottled == <<"t", "h", "r", "o", "t", "t", "l", "e", "d", "=">>
PfxHex == <<"0", "x">>

parseTemp(out) ==
    With(TrimSuffix(TrimPrefix(out, PfxTemp), SfxTemp), LAMBDA o :
    With(ParseFloat(o), LAMBDA f :
        IF ~f.ok THEN [v |-> ZeroF, err |-> <<"parseTemp", out, o>>]
        ELSE [v |-> f.v, err |-> <<>>]))

parseVolts(out) ==
    With(TrimSuffix(TrimPrefix(out, PfxVolt), SfxVolt), LAMBDA o :
    With(ParseFloat(o), LAMBDA f :
        IF ~f.ok THEN [v |-> ZeroF, err |-> <<"parseVolts", out, o>>]
        ELSE [v |-> f.v, err |-> <<>>]))

parseClock(out) ==
    With(Split(out, "="), LAMBDA parts :
        IF Len(parts) # 2 THEN [v |-> ZeroF, err |-> <<"parseClock", "unexpected format", out>>]
        ELSE With(parts[2], LAMBDA rhs :
             With(ParseFloat(rhs), LAMBDA hz :
                IF ~hz.ok THEN [v |-> ZeroF, err |-> <<"parseClock", rhs>>]
                ELSE \* mhz := hz / 1e6; math.Round(mhz*10) / 10
                     [v |-> Norm(RoundDiv(hz.v.m, Pow10(hz.v.e + 5)), 1), err |-> <<>>])))

parseThrottleBits(out) ==
    With(IF HasPrefix(out, PfxThrottled) THEN TrimPrefix(out, PfxThrottled) ELSE out, LAMBDA hex :
    With(TrimPrefix(hex, PfxHex), LAMBDA digs :
    With(ParseUint16(digs), LAMBDA val :
        IF ~val.ok
        THEN [hex |-> hex, uv |-> FALSE, fc |-> FALSE, thr |-> FALSE,
              err |-> <<"parseThrottleBits", out>>]
        ELSE [hex |-> hex, uv |-> Bit(val.v, 0), fc |-> Bit(val.v, 1), thr |-> Bit(val.v, 2),
              err |-> <<>>])))

\* ------------------------------------------------------- type State
ZeroState ==
    [Timestamp |-> 0, TempC |-> ZeroF, VoltV |-> ZeroF, ClockArmMHz |-> ZeroF,
     ThrottleHex |-> <<>>, Undervoltage |-> FALSE, FreqCapped |-> FALSE, Throttled |-> FALSE,
     Source |-> "", LastPollLatency |-> <<>>,
     RawTemp |-> <<>>, RawVolts |-> <<>>, RawThrottle |-> <<>>, RawClock |-> <<>>,
     LastError |-> <<>>, LastErrorAt |-> 0]

\* time.Duration.String(): the rendering is one-to-one, kept as the duration in a
\* one-element string; the empty string is <<>>
DurationString(d) == <<d>>

\* a struct assignment copies the words of the struct one after the other; the
\* model splits the copy in two halves, the fields up to Throttled and the rest
FieldsA == {"Timestamp", "TempC", "VoltV", "ClockArmMHz", "ThrottleHex",
            "Undervoltage", "FreqCapped", "Throttled"}

CopyA(dst, src) == [k \in DOMAIN dst |-> IF k \in FieldsA THEN src[k] ELSE dst[k]]

CopyB(dst, src) == [k \in DOMAIN dst |-> IF k \in FieldsA THEN dst[k] ELSE src[k]]

\* ------------------------------------------------------- the environment: vcgencmd
Procs == {"main", "bg"}
Readers == 1..NumReaders

ArgTemp == "measure_temp"
ArgVolts == "measure_volts"
ArgThrottle == "get_throttled"
ArgClock == "measure_clock arm"

ArgsSet == {ArgTemp, ArgVolts, ArgThrottle, ArgClock}

\* the well-formed output of each sub-command
GoodOutput(args) ==
    CASE args = ArgTemp -> <<"t", "e", "m", "p", "=", "5", "3", ".", "2", "'", "C", "\n">>
      [] args = ArgVolts -> <<"v", "o", "l", "t", "=", "0", ".", "8", "6", "2", "5", "V", "\n">>
      [] args = ArgThrottle ->
           <<"t", "h", "r", "o", "t", "t", "l", "e", "d", "=", "0", "x", "5", "0", "0", "0", "5", "\n">>
      [] args = ArgClock ->
           <<"f", "r", "e", "q", "u", "e", "n", "c", "y", "(", "4", "8", ")", "=",
             "1", "5", "0", "0", "3", "9", "8", "4", "6", "4", "\n">>

\* the well-formed output as run returns it
GoodOutputTrimmed(args) == TrimSpace(GoodOutput(args))

\* what vcgencmd prints, with exit status 0, for a request it does not serve
BadOutput == <<"e", "r", "r", "o", "r", "=", "1", " ", "m", "s", "g", "=", "x", "\n">>

\* what a vcgencmd process that exits with status 0 may print
Outputs(args) == {GoodOutput(args), BadOutput}

\* what a vcgencmd process that exits with a non-zero status prints
FailOutput == <<"V", "C", "H", "I", " ", "f", "a", "i", "l", "e", "d", "\n">>

\* the ways one process may end if it is left to run: exit status and output
ProcResults(args) ==
    {[exit |-> 0, out |-> o] : o \in Outputs(args)} \cup {[exit |-> 1, out |-> FailOutput]}

\* in how many ways a process that runs for d and ends with res deviates from a
\* prompt vcgencmd that prints the well-formed output: it is slow; it exits with a
\* non-zero status or prints something else
Deviations(args, d, res) ==
    (IF d > 1 THEN 1 ELSE 0) + (IF res.exit # 0 \/ res.out # GoodOutput(args) THEN 1 ELSE 0)

\* ------------------------------------------------------- state
VARIABLES
    now,        \* the wall clock
    cycles,     \* number of pollOnce calls started so far
    mainPc,     \* position of func main
    bgPc,       \* position of the background poller goroutine
    poll,       \* poll[p]: the activation of pollOnce called by goroutine p
    setter,     \* setter[p]: the activation of cache.Set called by goroutine p
    cache,      \* c.state
    lock,       \* c.mu: writer, whether it holds the lock, the readers holding it
    ticker,     \* the time.Ticker of the background poller and its channel t.C
    reader,     \* reader[r]: the activation of the /power handler for request r
    published,  \* history: argument and cycle of the last cache.Set that returned
    setCount,   \* history: setCount[p] = cache.Set calls completed by p in its cycle
    faults,     \* environment: number of deviations of vcgencmd processes so far
    proxy,      \* the caching proxy in front of the agent: a process of its own
    fwd         \* the eventing forwarder: a process of its own

vars == <<now, cycles, mainPc, bgPc, poll, setter, cache, lock, ticker, reader,
          published, setCount, faults, proxy, fwd>>

\* the state of a downstream consumer in a run that does not include it
NotRunning == [pc |-> "notRunning"]

IdleFrame ==
    [pc |-> "idle", start |-> 0, deadline |-> 0,
     tOut |-> <<>>, vOut |-> <<>>, thOut |-> <<>>, clkOut |-> <<>>,
     tErr |-> <<>>, vErr |-> <<>>, thErr |-> <<>>, cErr |-> <<>>,
     temp |-> ZeroF, volt |-> ZeroF, clockMHz |-> ZeroF,
     ret |-> ZeroState, err |-> <<>>, cycle |-> 0, calls |-> <<>>,
     qfail |-> FALSE, pfail |-> FALSE]

IdleSetter == [pc |-> "idle", s |-> ZeroState, cycle |-> 0, qfail |-> FALSE, pfail |-> FALSE]

IdleReader == [pc |-> "idle", st |-> ZeroState]

Init ==
    /\ now = 1
    /\ cycles = 0
    /\ mainPc = "initPoll"
    /\ bgPc = "notStarted"
    /\ poll = [p \in Procs |-> IdleFrame]
    /\ setter = [p \in Procs |-> IdleSetter]
    /\ cache = [state |-> ZeroState]
    /\ lock = [w |-> "none", held |-> FALSE, r |-> {}]
    /\ ticker = [active |-> FALSE, next |-> 0, pending |-> FALSE]
    /\ reader = [r \in Readers |-> IdleReader]
    /\ published = [s |-> ZeroState, cycle |-> 0, qfail |-> FALSE, pfail |-> FALSE]
    /\ setCount = [p \in Procs |-> 0]
    /\ faults = 0
    /\ proxy = NotRunning
    /\ fwd = NotRunning


\* ------------------------------------------------------- the ticker
\* the runtime timer of t := time.NewTicker(*poll) when the clock reaches t: every
\* tick due by then has been sent to t.C; t.C holds one tick, a tick that finds
\* the channel full is dropped
Fire(tk, t) ==
    IF tk.active /\ t >= tk.next
    THEN [tk EXCEPT !.pending = TRUE,
                    !.next = tk.next + PollInterval * (((t - tk.next) \div PollInterval) + 1)]
    ELSE tk

\* ------------------------------------------------------- run
\* fmt.Errorf("exec failed: %s %s: %w; output: %q", name, args, err, sout)
ExecErr(args, cause, sout) == <<"exec failed", "vcgencmd", args, cause, sout>>

\* run as it would be if every command had a deadline of its own, Timeout after
\* its start
runPerCommand(t, deadline, args) ==
    {IF d >= Timeout
     THEN [out |-> <<>>, err |-> ExecErr(args, "signal: killed", <<>>), t |-> t + Timeout,
           fault |-> IF d > 1 THEN 1 ELSE 0]
     ELSE [out |-> TrimSpace(res.out),
           err |-> IF res.exit = 0 THEN <<>>
                   ELSE ExecErr(args, "exit status 1", TrimSpace(res.out)),
           t |-> t + d,
           fault |-> Deviations(args, d, res)]
       : d \in 1..MaxDur, res \in ProcResults(args)}

\* run(ctx, "vcgencmd", args) called at time t with a context that expires at
\* deadline: the set of its possible results, [out, err] and the time t of return
\* (fault: the deviations of the process).
\* A context that is already done makes cmd.Start fail at once; a process still
\* running at the deadline is killed.
run(t, deadline, args) ==
    IF t >= deadline
    THEN {[out |-> <<>>, err |-> ExecErr(args, "context deadline exceeded", <<>>), t |-> t,
           fault |-> 0]}
    ELSE {IF t + d >= deadline
          THEN [out |-> <<>>, err |-> ExecErr(args, "signal: killed", <<>>), t |-> deadline,
                fault |-> IF d > 1 THEN 1 ELSE 0]
          ELSE [out |-> TrimSpace(res.out),
                err |-> IF res.exit = 0 THEN <<>>
                        ELSE ExecErr(args, "exit status 1", TrimSpace(res.out)),
                t |-> t + d,
                fault |-> Deviations(args, d, res)]
            : d \in 1..MaxDur, res \in ProcResults(args)}

\* ------------------------------------------------------- pollOnce
\* ctx, cancel := context.WithTimeout(context.Background(), timeout); start := time.Now()
pollOnceEnter(t, cycle) ==
    [IdleFrame EXCEPT !.pc = "runTemp", !.start = t, !.deadline = t + Timeout, !.cycle = cycle]

\* return st, err: the locals of pollOnce die, the caller holds the result
pollOnceReturn(f, st, err) ==
    [IdleFrame EXCEPT !.pc = "ret", !.ret = st, !.err = err, !.cycle = f.cycle,
                      !.calls = f.calls, !.start = f.start, !.deadline = f.deadline,
                      !.qfail = f.qfail, !.pfail = f.pfail]

RunTemp(p) ==
    /\ poll[p].pc = "runTemp"
    /\ \E r \in run(now, poll[p].deadline, ArgTemp) :
          /\ faults + r.fault <= MaxFaults
          /\ faults' = faults + r.fault
          /\ poll' = [poll EXCEPT ![p] = [@ EXCEPT !.pc = "runVolts", !.tOut = r.out,
                                            !.tErr = r.err, !.calls = Append(@, "temp"),
                                            !.qfail = @ \/ r.err # <<>>]]
          /\ now' = r.t
          /\ ticker' = Fire(ticker, r.t)
    /\ UNCHANGED <<cycles, mainPc, bgPc, setter, cache, lock, reader, published, setCount,
                 proxy, fwd>>

\* RunVolts as it would be if the queries stopped at the first failure
RunVoltsUnlessFailed(p) ==
    /\ poll[p].pc = "runVolts"
    /\ IF poll[p].tErr # <<>>
       THEN /\ poll' = [poll EXCEPT ![p] = [@ EXCEPT !.pc = "firstErr"]]
            /\ UNCHANGED <<now, ticker, faults>>
       ELSE \E r \in run(now, poll[p].deadline, ArgVolts) :
               /\ faults + r.fault <= MaxFaults
               /\ faults' = faults + r.fault
               /\ poll' = [poll EXCEPT ![p] = [@ EXCEPT !.pc = "runThrottle", !.vOut = r.out,
                                                 !.vErr = r.err, !.calls = Append(@, "volts"),
                                                 !.qfail = @ \/ r.err # <<>>]]
               /\ now' = r.t
               /\ ticker' = Fire(ticker, r.t)
    /\ UNCHANGED <<cycles, mainPc, bgPc, setter, cache, lock, reader, published, setCount,
                 proxy, fwd>>

RunVolts(p) ==
    /\ poll[p].pc = "runVolts"
    /\ \E r \in run(now, poll[p].deadline, ArgVolts) :
          /\ faults + r.fault <= MaxFaults
          /\ faults' = faults + r.fault
          /\ poll' = [poll EXCEPT ![p] = [@ EXCEPT !.pc = "runThrottle", !.vOut = r.out,
                                            !.vErr = r.err, !.calls = Append(@, "volts"),
                                            !.qfail = @ \/ r.err # <<>>]]
          /\ now' = r.t
          /\ ticker' = Fire(ticker, r.t)
    /\ UNCHANGED <<cycles, mainPc, bgPc, setter, cache, lock, reader, published, setCount,
                 proxy, fwd>>

RunThrottle(p) ==
    /\ poll[p].pc = "runThrottle"
    /\ \E r \in run(now, poll[p].deadline, ArgThrottle) :
          /\ faults + r.fault <= MaxFaults
          /\ faults' = faults + r.fault
          /\ poll' = [poll EXCEPT ![p] = [@ EXCEPT !.pc = "runClock", !.thOut = r.out,
                                            !.thErr = r.err, !.calls = Append(@, "throttle"),
                                            !.qfail = @ \/ r.err # <<>>]]
          /\ now' = r.t
          /\ ticker' = Fire(ticker, r.t)
    /\ UNCHANGED <<cycles, mainPc, bgPc, setter, cache, lock, reader, published, setCount,
                 proxy, fwd>>

RunClock(p) ==
    /\ poll[p].pc = "runClock"
    /\ \E r \in run(now, poll[p].deadline, ArgClock) :
          /\ faults + r.fault <= MaxFaults
          /\ faults' = faults + r.fault
          /\ poll' = [poll EXCEPT ![p] = [@ EXCEPT !.pc = "firstErr", !.clkOut = r.out,
                                            !.cErr = r.err, !.calls = Append(@, "clock"),
                                            !.qfail = @ \/ r.err # <<>>]]
          /\ now' = r.t
          /\ ticker' = Fire(ticker, r.t)
    /\ UNCHANGED <<cycles, mainPc, bgPc, setter, cache, lock, reader, published, setCount,
                 proxy, fwd>>

\* firstErr as it would be if a later failure replaced an earlier one
firstErrLast(f) ==
    IF f.cErr # <<>> THEN f.cErr
    ELSE IF f.thErr # <<>> THEN f.thErr
    ELSE IF f.vErr # <<>> THEN f.vErr
    ELSE f.tErr

\* var firstErr error; if tErr != nil && firstErr == nil { firstErr = tErr } ...
firstErr(f) ==
    IF f.tErr # <<>> THEN f.tErr
    ELSE IF f.vErr # <<>> THEN f.vErr
    ELSE IF f.thErr # <<>> THEN f.thErr
    ELSE f.cErr

\* QueryFailState as it would be without the LastError field
QueryFailStateNoError(f, t) ==
    [ZeroState EXCEPT !.Timestamp = t, !.Source = "vcgencmd",
                      !.RawTemp = f.tOut, !.RawVolts = f.vOut,
                      !.RawThrottle = f.thOut, !.RawClock = f.clkOut,
                      !.LastPollLatency = DurationString(t - f.start),
                      !.LastErrorAt = t]

\* the State returned when a query failed
QueryFailState(f, t) ==
    [ZeroState EXCEPT !.Timestamp = t, !.Source = "vcgencmd",
                      !.RawTemp = f.tOut, !.RawVolts = f.vOut,
                      !.RawThrottle = f.thOut, !.RawClock = f.clkOut,
                      !.LastPollLatency = DurationString(t - f.start),
                      !.LastError = firstErr(f), !.LastErrorAt = t]

\* if firstErr != nil { return State{...}, firstErr }
CheckFirstErr(p) ==
    /\ poll[p].pc = "firstErr"
    /\ poll' = [poll EXCEPT ![p] =
                  IF firstErr(@) # <<>>
                  THEN pollOnceReturn(@, QueryFailState(@, now), firstErr(@))
                  ELSE [@ EXCEPT !.pc = "parseTemp"]]
    /\ UNCHANGED <<now, cycles, mainPc, bgPc, setter, cache, lock, ticker, reader, published,
                 setCount, faults, proxy, fwd>>

\* ParseFailState as it would be if it also carried the timestamp and the source
ParseFailStateStamped(rawField, out, err, t) ==
    [ZeroState EXCEPT ![rawField] = out, !.LastError = err, !.LastErrorAt = t,
                      !.Timestamp = t, !.Source = "vcgencmd"]

\* the State returned when the parser of the raw field rawField failed
ParseFailState(rawField, out, err, t) ==
    [ZeroState EXCEPT ![rawField] = out, !.LastError = err, !.LastErrorAt = t]

ParseTemp(p) ==
    /\ poll[p].pc = "parseTemp"
    /\ \E r \in {parseTemp(poll[p].tOut)} :
           poll' = [poll EXCEPT ![p] =
                      IF r.err # <<>>
                      THEN pollOnceReturn([@ EXCEPT !.calls = Append(@, "parseTemp"), !.pfail = TRUE],
                                          ParseFailState("RawTemp", @.tOut, r.err, now), r.err)
                      ELSE [@ EXCEPT !.pc = "parseVolts", !.temp = r.v,
                                     !.calls = Append(@, "parseTemp")]]
    /\ UNCHANGED <<now, cycles, mainPc, bgPc, setter, cache, lock, ticker, reader, published,
                 setCount, faults, proxy, fwd>>

ParseVolts(p) ==
    /\ poll[p].pc = "parseVolts"
    /\ \E r \in {parseVolts(poll[p].vOut)} :
           poll' = [poll EXCEPT ![p] =
                      IF r.err # <<>>
                      THEN pollOnceReturn([@ EXCEPT !.calls = Append(@, "parseVolts"), !.pfail = TRUE],
                                          ParseFailState("RawVolts", @.vOut, r.err, now), r.err)
                      ELSE [@ EXCEPT !.pc = "parseClock", !.volt = r.v,
                                     !.calls = Append(@, "parseVolts")]]
    /\ UNCHANGED <<now, cycles, mainPc, bgPc, setter, cache, lock, ticker, reader, published,
                 setCount, faults, proxy, fwd>>

ParseClock(p) ==
    /\ poll[p].pc = "parseClock"
    /\ \E r \in {parseClock(poll[p].clkOut)} :
           poll' = [poll EXCEPT ![p] =
                      IF r.err # <<>>
                      THEN pollOnceReturn([@ EXCEPT !.calls = Append(@, "parseClock"), !.pfail = TRUE],
                                          ParseFailState("RawClock", @.clkOut, r.err, now), r.err)
                      ELSE [@ EXCEPT !.pc = "parseThrottle", !.clockMHz = r.v,
                                     !.calls = Append(@, "parseClock")]]
    /\ UNCHANGED <<now, cycles, mainPc, bgPc, setter, cache, lock, ticker, reader, published,
                 setCount, faults, proxy, fwd>>

\* s := State{...}; return s, nil
SuccessState(f, th, t) ==
    [ZeroState EXCEPT !.Timestamp = t, !.TempC = f.temp, !.VoltV = f.volt,
                      !.ClockArmMHz = f.clockMHz, !.ThrottleHex = th.hex,
                      !.Undervoltage = th.uv, !.FreqCapped = th.fc, !.Throttled = th.thr,
                      !.Source = "vcgencmd",
                      !.LastPollLatency = DurationString(t - f.start),
                      !.RawTemp = f.tOut, !.RawVolts = f.vOut,
                      !.RawThrottle = f.thOut, !.RawClock = f.clkOut]

ParseThrottle(p) ==
    /\ poll[p].pc = "parseThrottle"
    /\ \E r \in {parseThrottleBits(poll[p].thOut)},
          g \in {[poll[p] EXCEPT !.calls = Append(@, "parseThrottleBits")]} :
           poll' = [poll EXCEPT ![p] =
                      IF r.err # <<>>
                      THEN pollOnceReturn([g EXCEPT !.pfail = TRUE],
                                          ParseFailState("RawThrottle", g.thOut, r.err, now), r.err)
                      ELSE pollOnceReturn(g, SuccessState(g, r, now), <<>>)]
    /\ UNCHANGED <<now, cycles, mainPc, bgPc, setter, cache, lock, ticker, reader, published,
                 setCount, faults, proxy, fwd>>

pollOnce(p) ==
    \/ RunTemp(p) \/ RunVolts(p) \/ RunThrottle(p) \/ RunClock(p)
    \/ CheckFirstErr(p)
    \/ ParseTemp(p) \/ ParseVolts(p) \/ ParseClock(p) \/ ParseThrottle(p)


\* ------------------------------------------------------- cache.Set
\* c.Set(s) called by goroutine p for the result of its cycle
SetEnter(f) == [pc |-> "lock", s |-> f.ret, cycle |-> f.cycle, qfail |-> f.qfail, pfail |-> f.pfail]

\* c.mu.Lock(), first half: the writer announces itself, which keeps new readers out
SetLock(p) ==
    /\ setter[p].pc = "lock"
    /\ lock.w = "none"
    /\ lock' = [lock EXCEPT !.w = p]
    /\ setter' = [setter EXCEPT ![p].pc = "acquire"]
    /\ UNCHANGED <<now, cycles, mainPc, bgPc, poll, cache, ticker, reader, published, setCount,
                 faults, proxy, fwd>>

\* SetAcquire as it would be if the writer did not wait for the readers to leave
SetAcquireNoWait(p) ==
    /\ setter[p].pc = "acquire"
    /\ lock.w = p
    /\ lock' = [lock EXCEPT !.held = TRUE]
    /\ cache' = [cache EXCEPT !.state = CopyA(@, setter[p].s)]
    /\ setter' = [setter EXCEPT ![p].pc = "write"]
    /\ UNCHANGED <<now, cycles, mainPc, bgPc, poll, ticker, reader, published, setCount,
                 faults, proxy, fwd>>

\* c.mu.Lock(), second half: the writer waits until the readers have left;
\* c.state = s, first half of the copy
SetAcquire(p) ==
    /\ setter[p].pc = "acquire"
    /\ lock.w = p
    /\ lock.r = {}
    /\ lock' = [lock EXCEPT !.held = TRUE]
    /\ cache' = [cache EXCEPT !.state = CopyA(@, setter[p].s)]
    /\ setter' = [setter EXCEPT ![p].pc = "write"]
    /\ UNCHANGED <<now, cycles, mainPc, bgPc, poll, ticker, reader, published, setCount,
                 faults, proxy, fwd>>

\* c.state = s, second half of the copy; defer c.mu.Unlock(); Set returns
SetUnlock(p) ==
    /\ setter[p].pc = "write"
    /\ cache' = [cache EXCEPT !.state = CopyB(@, setter[p].s)]
    /\ lock' = [lock EXCEPT !.w = "none", !.held = FALSE]
    /\ setter' = [setter EXCEPT ![p].pc = "done"]
    /\ published' = [s |-> setter[p].s, cycle |-> setter[p].cycle,
                     qfail |-> setter[p].qfail, pfail |-> setter[p].pfail]
    /\ setCount' = [setCount EXCEPT ![p] = @ + 1]
    /\ UNCHANGED <<now, cycles, mainPc, bgPc, poll, ticker, reader, faults, proxy, fwd>>

Set(p) == SetLock(p) \/ SetAcquire(p) \/ SetUnlock(p)

\* ------------------------------------------------------- func main
\* MainInitPoll as it would be if the poller goroutine were started before the
\* initial poll
MainInitPollAfterGo ==
    /\ mainPc = "initPoll"
    /\ poll["main"].pc = "idle"
    /\ cycles < MaxCycles
    /\ cycles' = cycles + 1
    /\ poll' = [poll EXCEPT !["main"] = pollOnceEnter(now, cycles + 1)]
    /\ setCount' = [setCount EXCEPT !["main"] = 0]
    /\ bgPc' = "newTicker"
    /\ UNCHANGED <<now, mainPc, setter, cache, lock, ticker, reader, published, faults, proxy, fwd>>

\* if s, err := pollOnce(*timeout): the call
MainInitPoll ==
    /\ mainPc = "initPoll"
    /\ poll["main"].pc = "idle"
    /\ cycles < MaxCycles
    /\ cycles' = cycles + 1
    /\ poll' = [poll EXCEPT !["main"] = pollOnceEnter(now, cycles + 1)]
    /\ setCount' = [setCount EXCEPT !["main"] = 0]
    /\ UNCHANGED <<now, mainPc, bgPc, setter, cache, lock, ticker, reader, published, faults,
                 proxy, fwd>>

\* MainInitSet as it would be if a failed initial poll were not published
MainInitSetOnlyOnSuccess ==
    /\ mainPc = "initPoll"
    /\ poll["main"].pc = "ret"
    /\ mainPc' = "initSet"
    /\ setter' = [setter EXCEPT !["main"] =
                    IF poll["main"].err # <<>> THEN [SetEnter(poll["main"]) EXCEPT !.pc = "done"]
                    ELSE SetEnter(poll["main"])]
    /\ UNCHANGED <<now, cycles, bgPc, poll, cache, lock, ticker, reader, published, setCount,
                 faults, proxy, fwd>>

\* err != nil { log.Printf(...); c.Set(s) } else { c.Set(s) }: the call of c.Set
MainInitSet ==
    /\ mainPc = "initPoll"
    /\ poll["main"].pc = "ret"
    /\ mainPc' = "initSet"
    /\ setter' = [setter EXCEPT !["main"] = SetEnter(poll["main"])]
    /\ UNCHANGED <<now, cycles, bgPc, poll, cache, lock, ticker, reader, published, setCount,
                 faults, proxy, fwd>>

\* go func() { ... }()
MainGo ==
    /\ mainPc = "initSet"
    /\ setter["main"].pc = "done"
    /\ mainPc' = "listen"
    /\ bgPc' = "newTicker"
    /\ setter' = [setter EXCEPT !["main"] = IdleSetter]
    /\ poll' = [poll EXCEPT !["main"] = IdleFrame]
    /\ UNCHANGED <<now, cycles, cache, lock, ticker, reader, published, setCount, faults,
                 proxy, fwd>>

\* http.ListenAndServe(*listen, mux): from here on requests are accepted
MainListen ==
    /\ mainPc = "listen"
    /\ mainPc' = "serving"
    /\ UNCHANGED <<now, cycles, bgPc, poll, setter, cache, lock, ticker, reader, published,
                 setCount, faults, proxy, fwd>>

\* ------------------------------------------------------- the background poller
\* t := time.NewTicker(*poll)
BgNewTicker ==
    /\ bgPc = "newTicker"
    /\ bgPc' = "waitTick"
    /\ ticker' = [active |-> TRUE, next |-> now + PollInterval, pending |-> FALSE]
    /\ UNCHANGED <<now, cycles, mainPc, poll, setter, cache, lock, reader, published, setCount,
                 faults, proxy, fwd>>

\* time passes while the poller sleeps on t.C, until the next tick is due
Wait ==
    /\ bgPc = "waitTick"
    /\ ticker.active
    /\ ~ticker.pending
    /\ now < ticker.next
    /\ cycles < MaxCycles
    /\ now' = ticker.next
    /\ ticker' = Fire(ticker, ticker.next)
    /\ UNCHANGED <<cycles, mainPc, bgPc, poll, setter, cache, lock, reader, published,
                 setCount, faults, proxy, fwd>>

\* BgRecvTick as it would be if the poller held c.mu for the whole cycle
BgRecvTickLocked ==
    /\ bgPc = "waitTick"
    /\ ticker.pending
    /\ cycles < MaxCycles
    /\ lock.w = "none" /\ lock.r = {}
    /\ lock' = [lock EXCEPT !.w = "bg", !.held = TRUE]
    /\ ticker' = [ticker EXCEPT !.pending = FALSE]
    /\ bgPc' = "polling"
    /\ cycles' = cycles + 1
    /\ poll' = [poll EXCEPT !["bg"] = pollOnceEnter(now, cycles + 1)]
    /\ setCount' = [setCount EXCEPT !["bg"] = 0]
    /\ UNCHANGED <<now, mainPc, setter, cache, reader, published, faults, proxy, fwd>>

\* for range t.C { s, err := pollOnce(*timeout): a tick is received, pollOnce is called
BgRecvTick ==
    /\ bgPc = "waitTick"
    /\ ticker.pending
    /\ cycles < MaxCycles
    /\ ticker' = [ticker EXCEPT !.pending = FALSE]
    /\ bgPc' = "polling"
    /\ cycles' = cycles + 1
    /\ poll' = [poll EXCEPT !["bg"] = pollOnceEnter(now, cycles + 1)]
    /\ setCount' = [setCount EXCEPT !["bg"] = 0]
    /\ UNCHANGED <<now, mainPc, setter, cache, lock, reader, published, faults, proxy, fwd>>

\* BgSet as it would be if a failed cycle kept the last good Reading
BgSetOnlyOnSuccess ==
    /\ bgPc = "polling"
    /\ poll["bg"].pc = "ret"
    /\ bgPc' = "setting"
    /\ setter' = [setter EXCEPT !["bg"] = IF poll["bg"].err # <<>> THEN IdleSetter
                                          ELSE SetEnter(poll["bg"])]
    /\ UNCHANGED <<now, cycles, mainPc, poll, cache, lock, ticker, reader, published, setCount,
                 faults, proxy, fwd>>

\* BgSet as it would be if a poll error ended the poller (log.Fatalf)
BgSetFatal ==
    /\ bgPc = "polling"
    /\ poll["bg"].pc = "ret"
    /\ bgPc' = IF poll["bg"].err # <<>> THEN "exited" ELSE "setting"
    /\ setter' = [setter EXCEPT !["bg"] = IF poll["bg"].err # <<>> THEN IdleSetter
                                          ELSE SetEnter(poll["bg"])]
    /\ UNCHANGED <<now, cycles, mainPc, poll, cache, lock, ticker, reader, published, setCount,
                 faults, proxy, fwd>>

\* if err != nil { log.Printf("poll error: %v", err) }; c.Set(s): the call of c.Set
BgSet ==
    /\ bgPc = "polling"
    /\ poll["bg"].pc = "ret"
    /\ bgPc' = "setting"
    /\ setter' = [setter EXCEPT !["bg"] = SetEnter(poll["bg"])]
    /\ UNCHANGED <<now, cycles, mainPc, poll, cache, lock, ticker, reader, published, setCount,
                 faults, proxy, fwd>>

\* dbg("polled: ..."), then back to the head of the loop
BgLog ==
    /\ bgPc = "setting"
    /\ setter["bg"].pc = "done"
    /\ bgPc' = "waitTick"
    /\ setter' = [setter EXCEPT !["bg"] = IdleSetter]
    /\ poll' = [poll EXCEPT !["bg"] = IdleFrame]
    /\ UNCHANGED <<now, cycles, mainPc, cache, lock, ticker, reader, published, setCount,
                 faults, proxy, fwd>>

\* ------------------------------------------------------- the /power handler, cache.Get
\* a request for /power arrives and its handler calls c.Get(): c.mu.RLock(), which
\* blocks while a writer holds the lock or waits for it; return c.state, first
\* half of the copy
GetRLock(r) ==
    /\ mainPc = "serving"
    /\ reader[r].pc = "idle"
    /\ lock.w = "none"
    /\ lock' = [lock EXCEPT !.r = @ \cup {r}]
    /\ reader' = [reader EXCEPT ![r].pc = "copy", ![r].st = CopyA(@, cache.state)]
    /\ UNCHANGED <<now, cycles, mainPc, bgPc, poll, setter, cache, ticker, published, setCount,
                 faults, proxy, fwd>>

\* return c.state, second half of the copy; defer c.mu.RUnlock(); Get returns
GetRUnlock(r) ==
    /\ reader[r].pc = "copy"
    /\ lock' = [lock EXCEPT !.r = @ \ {r}]
    /\ reader' = [reader EXCEPT ![r].pc = "encode", ![r].st = CopyB(@, cache.state)]
    /\ UNCHANGED <<now, cycles, mainPc, bgPc, poll, setter, cache, ticker, published, setCount,
                 faults, proxy, fwd>>

\* json.NewEncoder(w).Encode(st); the handler returns
Encode(r) ==
    /\ reader[r].pc = "encode"
    /\ reader' = [reader EXCEPT ![r] = IdleReader]
    /\ UNCHANGED <<now, cycles, mainPc, bgPc, poll, setter, cache, lock, ticker, published,
                 setCount, faults, proxy, fwd>>

Get(r) == GetRLock(r) \/ GetRUnlock(r)

Handler(r) == Get(r) \/ Encode(r)

\* ------------------------------------------------------- the agent
Main == MainInitPoll \/ MainInitSet \/ MainGo \/ MainListen

Poller == BgNewTicker \/ BgRecvTick \/ BgSet \/ BgLog

Next ==
    \/ Main
    \/ Poller
    \/ Wait
    \/ \E p \in Procs : pollOnce(p)
    \/ \E p \in Procs : Set(p)
    \/ \E r \in Readers : Handler(r)

Spec == Init /\ [][Next]_vars


\* ------------------------------------------------------- scheduling
\* the steps of the goroutines of main and of the poller
Engine == Main \/ Poller \/ (\E p \in Procs : pollOnce(p)) \/ (\E p \in Procs : Set(p))

\* the Go scheduler lets every runnable goroutine run: the engine's goroutines,
\* and a handler that is inside cache.Get
Fairness == WF_vars(Engine) /\ WF_vars(\E r \in Readers : GetRUnlock(r))

FairSpec == Spec /\ Fairness


\* ======================================================= properties
QueryPcs == {"runTemp", "runVolts", "runThrottle", "runClock"}
ParsePcs == {"parseTemp", "parseVolts", "parseClock", "parseThrottle"}

\* the errors of the four queries in the order temperature, voltage, throttle, clock
QueryErrs(f) == <<f.tErr, f.vErr, f.thErr, f.cErr>>

\* the error of the first failed query in that order
FirstFailed(f) ==
    LET errs == QueryErrs(f)
        k    == CHOOSE i \in 1..4 : errs[i] # <<>> /\ \A j \in 1..(i - 1) : errs[j] = <<>>
    IN  errs[k]

NoParserRan(f) == \A i \in 1..Len(f.calls) : f.calls[i] \in {"temp", "volts", "throttle", "clock"}

\* C1: when at least one of the four queries failed, pollOnce returns, without
\* running a parser, a Reading whose last_error is the error of the first failed
\* query in the order temperature, voltage, throttle, clock, whose raw fields are
\* the four captured outputs, whose source is set, and whose temperature, voltage,
\* clock, throttle hex string and throttle booleans are zero.
C1_QueryFailure ==
    [][\A p \in Procs :
          (poll[p].pc = "firstErr" /\ poll'[p] # poll[p]
              /\ \E i \in 1..4 : QueryErrs(poll[p])[i] # <<>>)
          => /\ poll'[p].pc = "ret"
             /\ poll'[p].err = FirstFailed(poll[p])
             /\ NoParserRan(poll'[p])
             /\ LET st == poll'[p].ret
                IN  /\ st.LastError = FirstFailed(poll[p])
                    /\ st.RawTemp = poll[p].tOut /\ st.RawVolts = poll[p].vOut
                    /\ st.RawThrottle = poll[p].thOut /\ st.RawClock = poll[p].clkOut
                    /\ st.Source = "vcgencmd"
                    /\ st.TempC = ZeroF /\ st.VoltV = ZeroF /\ st.ClockArmMHz = ZeroF
                    /\ st.ThrottleHex = <<>>
                    /\ ~st.Undervoltage /\ ~st.FreqCapped /\ ~st.Throttled]_vars

\* a cycle in which the throttle and the clock query failed after temperature and
\* voltage succeeded with well-formed output has returned the throttle error
C1_Witness ==
    \E p \in Procs :
        /\ poll[p].pc = "ret" /\ poll[p].qfail
        /\ poll[p].ret.RawTemp = TrimSpace(GoodOutput(ArgTemp))
        /\ poll[p].ret.RawVolts = TrimSpace(GoodOutput(ArgVolts))
        /\ poll[p].ret.LastError = ExecErr(ArgThrottle, "signal: killed", <<>>)
        /\ poll[p].calls = <<"temp", "volts", "throttle", "clock">>
        /\ poll[p].ret.TempC = ZeroF

\* the parser of each parse step, its raw field and the step that follows it
ParserOf(pc, f) ==
    CASE pc = "parseTemp" -> [raw |-> "RawTemp", out |-> f.tOut, err |-> parseTemp(f.tOut).err,
                               name |-> "parseTemp", next |-> "parseVolts"]
      [] pc = "parseVolts" -> [raw |-> "RawVolts", out |-> f.vOut, err |-> parseVolts(f.vOut).err,
                                name |-> "parseVolts", next |-> "parseClock"]
      [] pc = "parseClock" -> [raw |-> "RawClock", out |-> f.clkOut, err |-> parseClock(f.clkOut).err,
                                name |-> "parseClock", next |-> "parseThrottle"]
      [] pc = "parseThrottle" -> [raw |-> "RawThrottle", out |-> f.thOut,
                                   err |-> parseThrottleBits(f.thOut).err,
                                   name |-> "parseThrottleBits", next |-> "ret"]

\* C2: when all four queries succeeded the parsers run in the order temperature,
\* voltage, clock, throttle, each after the success of the one before; the first
\* parser that fails ends the cycle with a Reading that carries that parser's
\* error and the raw field of that measurement and nothing else (no field of an
\* earlier parser, no later parser run).
C2_ParseFailure ==
    [][\A p \in Procs :
          /\ (poll[p].pc = "firstErr" /\ poll'[p] # poll[p] /\ poll'[p].pc # "ret")
                => poll'[p].pc = "parseTemp"
          /\ (poll[p].pc \in ParsePcs /\ poll'[p] # poll[p])
                => LET ps == ParserOf(poll[p].pc, poll[p])
                   IN  /\ poll'[p].calls = Append(poll[p].calls, ps.name)
                       /\ IF ps.err = <<>>
                          THEN /\ poll'[p].pc = ps.next
                               /\ poll'[p].pc = "ret" => poll'[p].ret.LastError = <<>>
                          ELSE /\ poll'[p].pc = "ret"
                               /\ poll'[p].err = ps.err
                               /\ poll'[p].ret = [ZeroState EXCEPT ![ps.raw] = ps.out,
                                                                   !.LastError = ps.err,
                                                                   !.LastErrorAt = now]]_vars

\* the clock parser has failed after the temperature and the voltage parser
\* succeeded: the Reading has the raw clock output and no temperature
C2_Witness ==
    \E p \in Procs :
        /\ poll[p].pc = "ret" /\ poll[p].pfail
        /\ poll[p].calls = <<"temp", "volts", "throttle", "clock",
                             "parseTemp", "parseVolts", "parseClock">>
        /\ poll[p].ret.RawClock = TrimSpace(BadOutput)
        /\ poll[p].ret.LastError[1] = "parseClock"
        /\ poll[p].ret.TempC = ZeroF /\ poll[p].ret.RawTemp = <<>>

\* the Reading st has every measurement: the raw outputs are present and parse, and
\* the numeric and boolean fields are the parsed values
FullyPopulated(st) ==
    /\ st.RawTemp # <<>> /\ st.RawVolts # <<>> /\ st.RawThrottle # <<>> /\ st.RawClock # <<>>
    /\ parseTemp(st.RawTemp) = [v |-> st.TempC, err |-> <<>>]
    /\ parseVolts(st.RawVolts) = [v |-> st.VoltV, err |-> <<>>]
    /\ parseClock(st.RawClock) = [v |-> st.ClockArmMHz, err |-> <<>>]
    /\ parseThrottleBits(st.RawThrottle) =
          [hex |-> st.ThrottleHex, uv |-> st.Undervoltage, fc |-> st.FreqCapped,
           thr |-> st.Throttled, err |-> <<>>]
    /\ st.Source = "vcgencmd"
    /\ st.Timestamp > 0
    /\ Len(st.LastPollLatency) = 1 /\ st.LastPollLatency[1] > 0

\* C3: every Reading the cache holds once it has been written has last_error
\* empty exactly if no query and no parser failed in the cycle that produced it,
\* and a Reading with last_error empty is fully populated, with poll_latency > 0.
C3_Dichotomy ==
    (published.cycle > 0 /\ ~lock.held) =>
        /\ cache.state = published.s
        /\ (cache.state.LastError = <<>>) <=> (~published.qfail /\ ~published.pfail)
        /\ (cache.state.LastError = <<>>) => FullyPopulated(cache.state)

\* the cache holds the Reading of a cycle without failure
C3_Witness ==
    /\ published.cycle > 0 /\ ~lock.held
    /\ ~published.qfail /\ ~published.pfail
    /\ cache.state.LastError = <<>>
    /\ cache.state.TempC = [m |-> 532, e |-> 1]
    /\ cache.state.Throttled

C5_NoTornRead ==
    [][\A r \in Readers :
          (reader[r].pc = "copy" /\ reader'[r].pc = "encode")
          => \/ (published.cycle > 0 /\ reader'[r].st = published.s)
             \/ \E p \in Procs : setter[p].pc \in {"acquire", "write"}
                                   /\ reader'[r].st = setter[p].s]_vars

\* a request is inside cache.Get while the poller waits in cache.Set to publish
\* a Reading that differs from the cached one in both halves
C5_Witness ==
    \E r \in Readers :
        /\ reader[r].pc = "copy"
        /\ setter["bg"].pc = "acquire"
        /\ CopyA(cache.state, setter["bg"].s) # cache.state
        /\ CopyB(cache.state, setter["bg"].s) # cache.state


\* pollOnce called by p is running its queries or its parsers
Running(p) == poll[p].pc \in QueryPcs \cup {"firstErr"} \cup ParsePcs

\* C6: a /power request starts no hardware query and does not wait for a poll
\* cycle in flight: while pollOnce runs its queries and parsers the cache lock is
\* free, so cache.Get can be entered and left; cache.Get has to wait only while a
\* cache.Set is between its c.mu.Lock() and its c.mu.Unlock(); and a step of a
\* handler changes nothing but the read lock and the handler's own copy.
C6_ReaderNeverWaitsForPoll ==
    /\ [](\A p \in Procs : Running(p) =>
            /\ lock.w = "none"
            /\ \A r \in Readers :
                  /\ (mainPc = "serving" /\ reader[r].pc = "idle") => ENABLED GetRLock(r)
                  /\ reader[r].pc = "copy" => ENABLED GetRUnlock(r))
    /\ [](\A r \in Readers :
            (mainPc = "serving" /\ reader[r].pc = "idle" /\ ~ENABLED GetRLock(r)) =>
                \E p \in Procs : setter[p].pc \in {"acquire", "write"})
    /\ [][(reader' # reader) =>
            UNCHANGED <<now, cycles, mainPc, bgPc, poll, setter, cache, ticker, published,
                        setCount, faults>>]_vars

\* a request has gone through cache.Get while the poller is in its throttle query
C6_Witness ==
    \E r \in Readers :
        /\ reader[r].pc = "encode"
        /\ poll["bg"].pc = "runThrottle"
        /\ reader[r].st = cache.state

\* the cycle of goroutine p is in progress: pollOnce was called and the
\* cache.Set of its result has not returned
InCycle(p) == poll[p].pc # "idle" /\ setter[p].pc # "done"

C8_InitialPollBeforeServing ==
    /\ (mainPc \in {"listen", "serving"} \/ bgPc # "notStarted"
           \/ \E r \in Readers : reader[r].pc # "idle")
          => (published.cycle >= 1 /\ (~lock.held => cache.state = published.s))
    /\ \A r \in Readers : reader[r].pc = "encode" =>
          (reader[r].st # ZeroState /\ reader[r].st.LastErrorAt + reader[r].st.Timestamp > 0)

\* a request has read the Reading of a failed initial poll
C8_Witness ==
    \E r \in Readers :
        /\ reader[r].pc = "encode"
        /\ published.cycle = 1
        /\ reader[r].st = published.s
        /\ reader[r].st.LastError # <<>>

\* the error that the run step at pc stored in frame f
ErrAt(pc, f) ==
    CASE pc = "runTemp" -> f.tErr [] pc = "runVolts" -> f.vErr
      [] pc = "runThrottle" -> f.thErr [] pc = "runClock" -> f.cErr

\* the queries up to and including the first one that was killed at the deadline
UpToExpiry(f) ==
    LET errs == QueryErrs(f)
        dead == {i \in 1..4 : errs[i] # <<>> /\ errs[i][4] = "signal: killed"}
    IN  IF dead = {} THEN {}
        ELSE {errs[j] : j \in 1..(CHOOSE i \in dead : \A k \in dead : i <= k)}

C10_FailuresAreData ==
    /\ []<>(published.cycle = cycles /\ mainPc = "serving" /\ bgPc = "waitTick")
    /\ [](\A p \in Procs :
            /\ setter[p].pc = "done" => setCount[p] = 1
            /\ (poll[p].pc = "ret" /\ (poll[p].qfail \/ poll[p].pfail)) =>
                  (poll[p].ret.LastError # <<>> /\ poll[p].ret.LastError = poll[p].err))
    /\ [][\A r \in Readers : (reader[r].pc = "copy" /\ reader'[r].pc = "encode") =>
            (published.cycle = cycles \/ published.cycle = cycles - 1)
            /\ reader'[r].st = published.s]_vars

\* after a failed ticker-driven poll the poller waits for the next tick and a
\* request has got the Reading of the failed cycle
C10_Witness ==
    \E r \in Readers :
        /\ bgPc = "waitTick"
        /\ published.cycle = 2 /\ (published.qfail \/ published.pfail)
        /\ reader[r].pc = "encode"
        /\ reader[r].st = published.s
        /\ reader[r].st.LastErrorAt > 1


\* C11: every Reading published to the cache, of a successful cycle, of a cycle
\* that failed at a query and of a cycle that failed at a parser, carries the
\* timestamp of the cycle's completion, the source tag and the poll latency.
C11_EveryReadingStamped ==
    published.cycle > 0 =>
        /\ published.s.Timestamp > 0
        /\ published.s.Source = "vcgencmd"
        /\ published.s.LastPollLatency # <<>>

\* ======================================================= the parsers on their own
\* pollOnce hands to the parsers what the four vcgencmd processes printed; the
\* specification below starts pollOnce after four successful queries whose
\* outputs are drawn from the sets that follow, and runs the parser steps
\* outputs of measure_temp: well-formed, without prefix, without suffix, non-numeric
TempInputs ==
    {<<"t", "e", "m", "p", "=", "5", "3", ".", "2", "'", "C">>,
     <<"t", "e", "m", "p", "=", "-", "3", ".", "5", "'", "C">>,
     <<"t", "e", "m", "p", "=", "7", "0", "'", "C">>,
     <<"5", "3", ".", "2", "'", "C">>,
     <<"t", "e", "m", "p", "=", "5", "3", ".", "2">>,
     <<"t", "e", "m", "p", "=", "a", "b", "c", "'", "C">>,
     <<"t", "e", "m", "p", "=", "'", "C">>,
     <<"e", "r", "r", "o", "r", "=", "1", " ", "m", "s", "g", "=", "x">>}

\* outputs of measure_volts
VoltInputs ==
    {<<"v", "o", "l", "t", "=", "0", ".", "8", "6", "2", "5", "V">>,
     <<"v", "o", "l", "t", "=", "1", ".", "2", "V">>,
     <<"0", ".", "8", "6", "2", "5", "V">>,
     <<"v", "o", "l", "t", "=", "0", ".", "8", "6", "2", "5">>,
     <<"v", "o", "l", "t", "=", "x", ".", "y", "V">>,
     <<"e", "r", "r", "o", "r", "=", "1", " ", "m", "s", "g", "=", "x">>}

\* outputs of measure_clock arm: integers, a tie of the rounding, a negative number,
\* a fraction, no separator, two separators, a non-numeric and an empty right side
ClockInputs ==
    {<<"f", "r", "e", "q", "u", "e", "n", "c", "y", "(", "4", "8", ")", "=", "1", "5", "0", "0", "3", "9", "8", "4", "6", "4">>,
     <<"f", "r", "e", "q", "u", "e", "n", "c", "y", "(", "4", "8", ")", "=", "1", "5", "0", "0", "3", "5", "0", "0", "0", "0">>,
     <<"f", "r", "e", "q", "u", "e", "n", "c", "y", "(", "4", "8", ")", "=", "6", "0", "0", "0", "0", "0", "0", "0", "0">>,
     <<"f", "r", "e", "q", "u", "e", "n", "c", "y", "(", "4", "8", ")", "=", "-", "2", "5", "0", "0", "0", "0">>,
     <<"f", "r", "e", "q", "u", "e", "n", "c", "y", "(", "4", "8", ")", "=", "1", "5", "0", "3", "9", "8", "4", "6", "4", ".", "5">>,
     <<"f", "r", "e", "q", "u", "e", "n", "c", "y", "(", "4", "8", ")">>,
     <<"a", "=", "b", "=", "1">>,
     <<"f", "r", "e", "q", "u", "e", "n", "c", "y", "(", "4", "8", ")", "=", "a", "b", "c">>,
     <<"f", "r", "e", "q", "u", "e", "n", "c", "y", "(", "4", "8", ")", "=">>}

\* outputs of get_throttled: with and without the prefixes, higher bits set,
\* non-hex digits, no digits, more than 64 bits
ThrottleInputs ==
    {<<"t", "h", "r", "o", "t", "t", "l", "e", "d", "=", "0", "x", "5", "0", "0", "0", "5">>,
     <<"t", "h", "r", "o", "t", "t", "l", "e", "d", "=", "0", "x", "0">>,
     <<"0", "x", "5", "0", "0", "0", "5">>,
     <<"t", "h", "r", "o", "t", "t", "l", "e", "d", "=", "5", "0", "0", "0", "5">>,
     <<"t", "h", "r", "o", "t", "t", "l", "e", "d", "=", "0", "x", "2">>,
     <<"t", "h", "r", "o", "t", "t", "l", "e", "d", "=", "0", "x", "f", "f", "f", "8">>,
     <<"t", "h", "r", "o", "t", "t", "l", "e", "d", "=", "0", "x", "z", "z">>,
     <<"t", "h", "r", "o", "t", "t", "l", "e", "d", "=">>,
     <<"t", "h", "r", "o", "t", "t", "l", "e", "d", "=", "0", "x", "1", "0", "0", "0", "0", "0", "0", "0", "0", "0", "0", "0", "0", "0", "0", "0", "0">>,
     <<"e", "r", "r", "o", "r", "=", "1", " ", "m", "s", "g", "=", "x">>}

ParserInit ==
    /\ now = 5
    /\ cycles = 1
    /\ mainPc = "initPoll"
    /\ bgPc = "notStarted"
    /\ \E t \in TempInputs, v \in VoltInputs, c \in ClockInputs, h \in ThrottleInputs :
          poll = [p \in Procs |->
                    IF p = "main"
                    THEN [pollOnceEnter(1, 1) EXCEPT
                            !.pc = "parseTemp", !.tOut = t, !.vOut = v, !.thOut = h, !.clkOut = c,
                            !.calls = <<"temp", "volts", "throttle", "clock">>]
                    ELSE IdleFrame]
    /\ setter = [p \in Procs |-> IdleSetter]
    /\ cache = [state |-> ZeroState]
    /\ lock = [w |-> "none", held |-> FALSE, r |-> {}]
    /\ ticker = [active |-> FALSE, next |-> 0, pending |-> FALSE]
    /\ reader = [r \in Readers |-> IdleReader]
    /\ published = [s |-> ZeroState, cycle |-> 0, qfail |-> FALSE, pfail |-> FALSE]
    /\ setCount = [p \in Procs |-> 0]
    /\ faults = 0
    /\ proxy = NotRunning
    /\ fwd = NotRunning

ParserNext ==
    \/ ParseTemp("main")
    \/ ParseVolts("main")
    \/ ParseClock("main")
    \/ ParseThrottle("main")

ParserSpec == ParserInit /\ [][ParserNext]_vars

\* s is p, a body that strconv accepts as a decimal number, and q
ExactForm(s, p, q) ==
    /\ Len(s) >= Len(p) + Len(q)
    /\ HasPrefix(s, p)
    /\ HasSuffix(s, q)
    /\ ParseFloat(SubSeq(s, Len(p) + 1, Len(s) - Len(q))).ok

\* the number d of an input p d q
BodyValue(s, p, q) == ParseFloat(SubSeq(s, Len(p) + 1, Len(s) - Len(q))).v

\* C12: parseTemp returns the number d for every input temp=<d>'C with d a valid
\* decimal number and returns an error for every other input (no temp= prefix,
\* no 'C suffix, or a non-numeric body); parseVolts does the same for volt=<d>V.
C12_StripAndParseContract ==
    [][/\ (poll["main"].pc = "parseTemp" /\ poll'["main"] # poll["main"]) =>
             IF ExactForm(poll["main"].tOut, PfxTemp, SfxTemp)
             THEN /\ poll'["main"].pc = "parseVolts"
                  /\ poll'["main"].temp = BodyValue(poll["main"].tOut, PfxTemp, SfxTemp)
             ELSE poll'["main"].pc = "ret" /\ poll'["main"].err # <<>>
       /\ (poll["main"].pc = "parseVolts" /\ poll'["main"] # poll["main"]) =>
             IF ExactForm(poll["main"].vOut, PfxVolt, SfxVolt)
             THEN /\ poll'["main"].pc = "parseClock"
                  /\ poll'["main"].volt = BodyValue(poll["main"].vOut, PfxVolt, SfxVolt)
             ELSE poll'["main"].pc = "ret" /\ poll'["main"].err # <<>>]_vars

\* s is an integer: an optional sign and one or more decimal digits
IsInteger(s) ==
    LET body == IF s # <<>> /\ Head(s) \in {"+", "-"} THEN Tail(s) ELSE s
    IN  body # <<>> /\ \A i \in 1..Len(body) : body[i] \in Digits

\* the value of the integer s
IntegerValue(s) ==
    LET body == IF Head(s) \in {"+", "-"} THEN Tail(s) ELSE s
    IN  IF Head(s) = "-" THEN 0 - DigitsToNat(body) ELSE DigitsToNat(body)

\* C13: parseClock on <label>=<hz> returns hz in megahertz rounded to one decimal
\* place, halves away from zero (frequency(48)=1500398464 gives 1500.4), and
\* returns an error whenever the input has not exactly one "=" or the part right
\* of it is not a valid integer.
C13_ParseClockContract ==
    [][(poll["main"].pc = "parseClock" /\ poll'["main"] # poll["main"]) =>
          LET out   == poll["main"].clkOut
              parts == Split(out, "=")
          IN  /\ IF Len(parts) = 2 /\ IsInteger(parts[2])
                 THEN /\ poll'["main"].pc = "parseThrottle"
                      /\ poll'["main"].clockMHz =
                            Norm(RoundDiv(IntegerValue(parts[2]), 100000), 1)
                 ELSE poll'["main"].pc = "ret" /\ poll'["main"].err # <<>>
              /\ out = GoodOutputTrimmed(ArgClock) =>
                    poll'["main"].clockMHz = [m |-> 15004, e |-> 1]]_vars

\* the reported string of a get_throttled output: the output without throttled=
ReportedHex(out) ==
    IF HasPrefix(out, PfxThrottled) THEN SubSeq(out, Len(PfxThrottled) + 1, Len(out)) ELSE out

\* the hexadecimal digits of a reported string: the string without 0x
ReportedDigits(hex) ==
    IF HasPrefix(hex, PfxHex) THEN SubSeq(hex, Len(PfxHex) + 1, Len(hex)) ELSE hex

\* digs is an unsigned hexadecimal number of at most 64 bits
IsHex64(digs) ==
    /\ digs # <<>>
    /\ \A i \in 1..Len(digs) : digs[i] \in HexDigits
    /\ SigDigits(digs) <= 16

\* C14: parseThrottleBits strips an optional throttled= and an optional 0x,
\* parses the rest as an unsigned 64-bit hexadecimal number and fails if that
\* fails; on success the three booleans are bits 0, 1 and 2 of the value, which
\* are the low three bits of its last digit, whatever the digits before it, and
\* the hex string returned is the reported string (throttled=0x50005 gives
\* 0x50005, true, false, true; throttled=0x0 gives all false).
C14_ParseThrottleContract ==
    [][(poll["main"].pc = "parseThrottle" /\ poll'["main"] # poll["main"]) =>
          LET out  == poll["main"].thOut
              hex  == ReportedHex(out)
              digs == ReportedDigits(hex)
              low  == HexVal(digs[Len(digs)])
              st   == poll'["main"].ret
          IN  /\ poll'["main"].pc = "ret"
              /\ IF IsHex64(digs)
                 THEN /\ poll'["main"].err = <<>> /\ st.LastError = <<>>
                      /\ st.ThrottleHex = hex
                      /\ st.Undervoltage = (low % 2 = 1)
                      /\ st.FreqCapped = ((low \div 2) % 2 = 1)
                      /\ st.Throttled = ((low \div 4) % 2 = 1)
                 ELSE /\ poll'["main"].err # <<>> /\ st.LastError = poll'["main"].err
                      /\ ~st.Undervoltage /\ ~st.FreqCapped /\ ~st.Throttled
              /\ out = GoodOutputTrimmed(ArgThrottle) =>
                    (st.Undervoltage /\ ~st.FreqCapped /\ st.Throttled)]_vars

\* get_throttled printed throttled=0xfff8: the parser has succeeded, the reported
\* string is 0xfff8 and, the low three bits being zero, the three booleans are false
C14_Witness ==
    /\ poll["main"].pc = "ret"
    /\ poll["main"].ret.RawThrottle =
          <<"t", "h", "r", "o", "t", "t", "l", "e", "d", "=", "0", "x", "f", "f", "f", "8">>
    /\ poll["main"].ret.ThrottleHex = <<"0", "x", "f", "f", "f", "8">>
    /\ poll["main"].ret.LastError = <<>>
    /\ ~poll["main"].ret.Undervoltage /\ ~poll["main"].ret.FreqCapped
    /\ ~poll["main"].ret.Throttled

\* the queries of a cycle in the order of the run calls, and the parsers in the
\* order of the parser calls
QuerySeq == <<"temp", "volts", "throttle", "clock">>

ParserSeq == <<"parseTemp", "parseVolts", "parseClock", "parseThrottleBits">>

IsPrefixOf(s, t) == Len(s) <= Len(t) /\ s = SubSeq(t, 1, Len(s))

\* C15: within a cycle nothing is tried twice: the calls made so far are a prefix
\* of temp, volts, throttle, clock, then the four parsers, so each query and each
\* parser is invoked at most once and in order; once the queries are over all four
\* have been invoked, whether or not an earlier one failed, and after a failed
\* query no parser is invoked; every step adds one call to the cycle or ends it;
\* and a step is tried again only in a new cycle, which the poller starts only
\* by taking a tick from the ticker (the initial poll is the first cycle).
C15_NoRetries ==
    /\ [](\A p \in Procs :
            /\ IsPrefixOf(poll[p].calls, QuerySeq \o ParserSeq)
            /\ poll[p].pc \notin QueryPcs \cup {"idle"} =>
                  IsPrefixOf(QuerySeq, poll[p].calls)
            /\ poll[p].qfail /\ poll[p].pc = "ret" => poll[p].calls = QuerySeq)
    /\ [][\A p \in Procs :
            /\ poll'[p].calls # poll[p].calls =>
                  \/ /\ Len(poll'[p].calls) = Len(poll[p].calls) + 1
                     /\ IsPrefixOf(poll[p].calls, poll'[p].calls)
                     /\ poll'[p].cycle = poll[p].cycle
                  \/ poll'[p].calls = <<>> /\ poll[p].pc = "ret"
            /\ poll'[p].cycle # poll[p].cycle /\ poll'[p].pc # "idle" =>
                  /\ poll[p].pc = "idle" /\ poll'[p].calls = <<>>
                  /\ poll'[p].cycle = cycles + 1 /\ cycles' = cycles + 1
                  /\ p = "bg" => ticker.pending /\ ~ticker'.pending
                  /\ p = "main" => cycles = 0]_vars

\* the temperature query of the poller's cycle has failed and the three queries
\* after it have been invoked all the same, each once
C15_Witness ==
    /\ poll["bg"].pc = "firstErr"
    /\ poll["bg"].tErr # <<>>
    /\ poll["bg"].calls = QuerySeq

\* ------------------------------------------------------- the caching proxies
\* Three programs have the same design: getPower and Handle of src/ko-function
\* ("ko"), getPower and Handle of package function ("function"), getStatus and
\* handle of the status proxy ("status").  The proxy is a process of its own; its
\* state is the record proxy.  Its clock counts seconds from 1, time 0 is the zero
\* time.Time.  A time.Time that came out of JSON is kept as its RFC 3339 text.
Variants == {"ko", "function", "status"}

Handlers == 1..NumHandlers

ZeroTimeText == "0001-01-01T00:00:00Z"

EpochText == "1970-01-01T00:00:00Z"

PresentText == "2025-10-04T00:00:00Z"

\* time.Time.IsZero
IsZero(ts) == ts = ZeroTimeText

\* time.Time.Unix, in days instead of seconds (the timestamps are at midnight UTC)
Unix(ts) ==
    CASE ts = ZeroTimeText -> 0 - 719162
      [] ts = EpochText -> 0
      [] ts = PresentText -> 20365

\* time.Since(t) on the clock clk; the difference to the zero time is the largest
\* Duration
Since(t, clk) == IF t = 0 THEN 2147483647 ELSE clk - t

\* the agents' variables in a run of a downstream consumer alone
AgentNotRunning ==
    /\ now = 1
    /\ cycles = 0
    /\ mainPc = "initPoll"
    /\ bgPc = "notStarted"
    /\ poll = [p \in Procs |-> IdleFrame]
    /\ setter = [p \in Procs |-> IdleSetter]
    /\ cache = [state |-> ZeroState]
    /\ lock = [w |-> "none", held |-> FALSE, r |-> {}]
    /\ ticker = [active |-> FALSE, next |-> 0, pending |-> FALSE]
    /\ reader = [r \in Readers |-> IdleReader]
    /\ published = [s |-> ZeroState, cycle |-> 0, qfail |-> FALSE, pfail |-> FALSE]
    /\ setCount = [p \in Procs |-> 0]
    /\ faults = 0

agentVars == <<now, cycles, mainPc, bgPc, poll, setter, cache, lock, ticker, reader,
               published, setCount, faults>>

\* Power{} and PowerStatus{}
ZeroPower ==
    [Timestamp |-> ZeroTimeText, TempC |-> ZeroF, VoltV |-> ZeroF, ClockArmMHz |-> ZeroF,
     Undervoltage |-> FALSE, FreqCapped |-> FALSE, Throttled |-> FALSE, LastError |-> <<>>]

ZeroStatus ==
    [NodeName |-> "", BatteryPercent |-> 0, IsCharging |-> FALSE, TimeOfDay |-> "",
     SolarAvailable |-> FALSE, LastUpdated |-> "", LastError |-> <<>>]

ZeroOf(variant) == IF variant = "status" THEN ZeroStatus ELSE ZeroPower

\* cache TTL in seconds
ttl(variant) == IF variant = "status" THEN 2 ELSE 5

\* the environment of the process: POWER_API_URL (POWER_STATUS_URL) and HOST_IP
Envs ==
    {[url |-> <<>>, host |-> <<>>],
     [url |-> <<>>, host |-> <<"10.0.0.5">>],
     [url |-> <<"http://agent:8085/power">>, host |-> <<>>]}

\* func init: the explicit URL, else one built from HOST_IP; the status proxy
\* falls back to localhost
init(variant, env) ==
    LET port == IF variant = "status" THEN <<":8080/status">> ELSE <<":8085/power">>
        url  == IF env.url # <<>> THEN env.url
                ELSE IF env.host # <<>> THEN <<"http://">> \o env.host \o port
                ELSE <<>>
    IN  IF url = <<>> /\ variant = "status" THEN <<"http://localhost:8080/status">> ELSE url

\* JSON objects an upstream of getPower answers with: the agent's Reading of a
\* good cycle, of a hot chip, of a chip at 70.0 degrees, of a capped clock, the
\* agent's Reading of a cycle whose parser failed (no timestamp), and a Reading
\* stamped by a clock that stands at the Unix epoch
PowerObject(ts, temp, fc, err) ==
    [timestamp |-> ts, temp_c |-> temp, volt_v |-> [m |-> 8625, e |-> 4],
     clock_arm_mhz |-> [m |-> 15004, e |-> 1], throttle_hex |-> "0x0",
     undervoltage |-> FALSE, freq_capped |-> fc, throttled |-> FALSE,
     source |-> "vcgencmd", last_error |-> err]

PowerObjects ==
    {PowerObject(PresentText, [m |-> 532, e |-> 1], FALSE, <<>>),
     PowerObject(PresentText, [m |-> 701, e |-> 1], FALSE, <<>>),
     PowerObject(PresentText, [m |-> 70, e |-> 0], FALSE, <<>>),
     PowerObject(PresentText, [m |-> 532, e |-> 1], TRUE, <<>>),
     [PowerObject(ZeroTimeText, ZeroF, FALSE, <<"parseTemp", "strconv.ParseFloat">>)
        EXCEPT !.volt_v = ZeroF, !.clock_arm_mhz = ZeroF, !.throttle_hex = "", !.source = ""],
     PowerObject(EpochText, [m |-> 532, e |-> 1], FALSE, <<>>)}

\* JSON objects an upstream of getStatus answers with: two states of the
\* simulator, a battery below 30 percent, and an object without the keys
StatusObject(b, c, tod, sol, upd) ==
    [node_name |-> "node-1", battery_percent |-> b, is_charging |-> c, time_of_day |-> tod,
     solar_available |-> sol, last_updated |-> upd]

StatusObjects ==
    {StatusObject(45, FALSE, "night", FALSE, PresentText),
     StatusObject(80, FALSE, "day", TRUE, PresentText),
     StatusObject(20, FALSE, "night", FALSE, PresentText),
     [StatusObject(0, FALSE, "", FALSE, "") EXCEPT !.node_name = ""]}

\* json.NewDecoder(resp.Body).Decode(&p): the keys of the object that are fields of
\* the struct, by their json tags; the other keys are dropped
Decode(variant, obj) ==
    IF variant = "status"
    THEN [NodeName |-> obj.node_name, BatteryPercent |-> obj.battery_percent,
          IsCharging |-> obj.is_charging, TimeOfDay |-> obj.time_of_day,
          SolarAvailable |-> obj.solar_available, LastUpdated |-> obj.last_updated,
          LastError |-> <<>>]
    ELSE [Timestamp |-> obj.timestamp, TempC |-> obj.temp_c, VoltV |-> obj.volt_v,
          ClockArmMHz |-> obj.clock_arm_mhz, Undervoltage |-> obj.undervoltage,
          FreqCapped |-> obj.freq_capped, Throttled |-> obj.throttled,
          LastError |-> obj.last_error]

\* what cli.Do and Decode can end with: no response (refused, or the client's
\* timeout), a body that is no JSON, or a JSON object
Exchanges(variant, url) ==
    {[ok |-> FALSE, v |-> [ZeroOf(variant) EXCEPT !.LastError = <<"Get">> \o url \o e]]
        : e \in {<<"context deadline exceeded">>}}
    \cup {[ok |-> FALSE,
           v |-> [ZeroOf(variant) EXCEPT !.LastError = <<"invalid character '<'">>]]}
    \cup {[ok |-> TRUE, v |-> Decode(variant, o)]
            : o \in IF variant = "status" THEN StatusObjects ELSE PowerObjects}

\* the test that lets getPower (getStatus) answer from the cache
Fresh(variant, c, at, clk) ==
    /\ Since(at, clk) < ttl(variant)
    /\ CASE variant = "ko" -> ~IsZero(c.Timestamp)
         [] variant = "function" -> Unix(c.Timestamp) # 0
         [] variant = "status" -> c.LastUpdated # ""

IdleHandler(variant) ==
    [pc |-> "idle", p |-> ZeroOf(variant), pend |-> ZeroOf(variant), ok |-> FALSE]

NoTouch == [by |-> 0, locked |-> TRUE]

NoResponse == [by |-> 0, status |-> 0, body |-> <<>>]

ProxyInit ==
    /\ AgentNotRunning
    /\ fwd = NotRunning
    /\ \E variant \in Variants, env \in Envs :
          proxy = [variant |-> variant, powerURL |-> init(variant, env), clock |-> 1,
                   mu |-> 0, cache |-> ZeroOf(variant), cacheAt |-> 0,
                   h |-> [h \in Handlers |-> IdleHandler(variant)],
                   requests |-> 0, upstream |-> 0,
                   lastOK |-> FALSE,
                   touch |-> NoTouch, resp |-> NoResponse]

\* a second passes
Tick ==
    /\ proxy.clock < MaxClock
    /\ proxy' = [proxy EXCEPT !.clock = @ + 1, !.touch = NoTouch, !.resp = NoResponse]
    /\ UNCHANGED <<agentVars, fwd>>

\* a request arrives, its handler calls getPower: mu.Lock()
Lock(h) ==
    /\ proxy.h[h].pc = "idle"
    /\ proxy.requests < MaxRequests
    /\ proxy.mu = 0
    /\ proxy' = [proxy EXCEPT !.mu = h, !.h[h].pc = "check", !.requests = @ + 1,
                              !.touch = NoTouch, !.resp = NoResponse]
    /\ UNCHANGED <<agentVars, fwd>>

\* the cache test, the test of powerURL, and either the request sent by cli.Do
\* or the return from getPower, which runs the deferred mu.Unlock()
Check(h) ==
    /\ proxy.h[h].pc = "check"
    /\ proxy' =
          [proxy EXCEPT
             !.touch = [by |-> h, locked |-> proxy.mu = h],
             !.resp = NoResponse,
             !.mu = IF Fresh(proxy.variant, proxy.cache, proxy.cacheAt, proxy.clock)
                       \/ proxy.powerURL = <<>>
                    THEN 0 ELSE @,
             !.h[h] = IF Fresh(proxy.variant, proxy.cache, proxy.cacheAt, proxy.clock)
                      THEN [@ EXCEPT !.pc = "respond", !.p = proxy.cache]
                      ELSE IF proxy.powerURL = <<>>
                      THEN [@ EXCEPT !.pc = "respond",
                                     !.p = [ZeroOf(proxy.variant) EXCEPT
                                              !.LastError = <<"POWER_API_URL/HOST_IP not set">>]]
                      ELSE [@ EXCEPT !.pc = "fetch"],
             !.upstream = IF ~Fresh(proxy.variant, proxy.cache, proxy.cacheAt, proxy.clock)
                             /\ proxy.powerURL # <<>>
                          THEN @ + 1 ELSE @]
    /\ UNCHANGED <<agentVars, fwd>>

\* cli.Do returns and the body is decoded
Fetch(h) ==
    /\ proxy.h[h].pc = "fetch"
    /\ \E x \in Exchanges(proxy.variant, proxy.powerURL) :
          proxy' = [proxy EXCEPT !.h[h] = [@ EXCEPT !.pc = "store", !.pend = x.v, !.ok = x.ok],
                                 !.touch = NoTouch, !.resp = NoResponse]
    /\ UNCHANGED <<agentVars, fwd>>

\* cache, cacheAt = p, time.Now() (on an error: cache = Power{LastError: ...}) and
\* the return from getPower, which runs the deferred mu.Unlock()
Store(h) ==
    /\ proxy.h[h].pc = "store"
    /\ proxy' = [proxy EXCEPT !.cache = proxy.h[h].pend, !.cacheAt = proxy.clock,
                              !.lastOK = proxy.h[h].ok,
                              !.mu = 0,
                              !.h[h] = [@ EXCEPT !.pc = "respond", !.p = proxy.h[h].pend,
                                                 !.pend = ZeroOf(proxy.variant), !.ok = FALSE],
                              !.touch = [by |-> h, locked |-> proxy.mu = h],
                              !.resp = NoResponse]
    /\ UNCHANGED <<agentVars, fwd>>

getPower(h) == Lock(h) \/ Check(h) \/ Fetch(h) \/ Store(h)

\* degraded as it would be if 70.0 degrees counted as too hot
degradedFrom70(p) ==
    p.Undervoltage \/ p.FreqCapped \/ p.Throttled \/ p.TempC.m * Pow10(1) >= 700 * Pow10(p.TempC.e)

\* p.Undervoltage || p.FreqCapped || p.Throttled || p.TempC > 70.0
degraded(p) ==
    p.Undervoltage \/ p.FreqCapped \/ p.Throttled \/ p.TempC.m * Pow10(1) > 700 * Pow10(p.TempC.e)

\* the status proxy's powerState
powerState(ps) ==
    IF ps.BatteryPercent >= 30 \/ ps.IsCharging \/ ps.SolarAvailable THEN "ok" ELSE "low"

\* the rest of Handle: the derived state and the response.  The status proxy reads
\* cacheAt here without mu: while another handler is about to assign cacheAt the
\* read is a data race and gives the old value, the new one or a mix (time -1).
\* Package function answers 500 when the request cannot be dumped.
Respond(h) ==
    /\ proxy.h[h].pc = "respond"
    /\ \E dumped \in IF proxy.variant = "function" THEN BOOLEAN ELSE {TRUE},
          at \in IF proxy.variant = "status" /\ \E g \in Handlers : proxy.h[g].pc = "store"
                 THEN {proxy.cacheAt, proxy.clock, 0 - 1}
                 ELSE {proxy.cacheAt} :
          proxy' =
             [proxy EXCEPT
                !.h[h] = IdleHandler(proxy.variant),
                !.touch = IF proxy.variant = "status"
                          THEN [by |-> h, locked |-> proxy.mu = h] ELSE NoTouch,
                !.resp =
                   IF ~dumped THEN [by |-> h, status |-> 500, body |-> <<>>]
                   ELSE IF proxy.variant = "status"
                   THEN [by |-> h, status |-> 200,
                         body |-> [source_url |-> proxy.powerURL, power |-> proxy.h[h].p,
                                   power_state |-> powerState(proxy.h[h].p),
                                   should_run |-> powerState(proxy.h[h].p) = "ok",
                                   cached_at |-> at, cache_ttl_s |-> ttl(proxy.variant)]]
                   ELSE [by |-> h, status |-> 200,
                         body |-> [degraded |-> degraded(proxy.h[h].p),
                                   power |-> proxy.h[h].p]]]
    /\ UNCHANGED <<agentVars, fwd>>

Handle(h) == getPower(h) \/ Respond(h)

ProxyNext == Tick \/ \E h \in Handlers : Handle(h)

ProxySpec == ProxyInit /\ [][ProxyNext]_vars

\* handler h takes the step of getPower that tests the cache and powerURL
Checks(h) == proxy.h[h].pc = "check" /\ proxy'.h[h].pc # "check"

\* the reading getPower returns when no backend address is configured
StaticReading == [ZeroPower EXCEPT !.LastError = <<"POWER_API_URL/HOST_IP not set">>]

\* C16: in getPower (ko and function), when the last fetch and decode succeeded, a
\* call that tests the cache less than the TTL after that fetch returns the fetched
\* reading without a request to the upstream, and a call that tests it at or after
\* the expiry of the TTL sends a request to the upstream; with no backend address
\* the call returns the static reading with last_error set, sends no request and
\* leaves cache and cacheAt as they are.
C16_TtlCaching ==
    [][\A h \in Handlers :
          (proxy.variant # "status" /\ Checks(h)) =>
             IF proxy.powerURL = <<>>
             THEN /\ proxy'.h[h].pc = "respond"
                  /\ proxy'.h[h].p = StaticReading
                  /\ proxy'.upstream = proxy.upstream
                  /\ proxy'.cache = proxy.cache /\ proxy'.cacheAt = proxy.cacheAt
             ELSE proxy.lastOK =>
                     IF proxy.clock - proxy.cacheAt < ttl(proxy.variant)
                     THEN /\ proxy'.h[h].pc = "respond"
                          /\ proxy'.h[h].p = proxy.cache
                          /\ proxy'.upstream = proxy.upstream
                     ELSE /\ proxy'.h[h].pc = "fetch"
                          /\ proxy'.upstream = proxy.upstream + 1]_vars

\* C17: in each of the three proxies, when the last attempt failed (no response,
\* or a body that is no JSON) the next call sends a request to the upstream,
\* also within the TTL of the failed attempt: the stored error reading is not
\* served from the cache.
C17_ErrorNeverCached ==
    [][\A h \in Handlers :
          (Checks(h) /\ proxy.powerURL # <<>> /\ proxy.cacheAt # 0 /\ ~proxy.lastOK) =>
             /\ proxy'.h[h].pc = "fetch"
             /\ proxy'.upstream = proxy.upstream + 1]_vars

\* C18: a handler that reads or writes cache or cacheAt holds mu while it does,
\* and at most one request to the upstream is in flight.
C18_CacheUnderMutex ==
    /\ proxy.touch.by # 0 => proxy.touch.locked
    /\ Cardinality({h \in Handlers : proxy.h[h].pc = "fetch"}) <= 1

\* a float64 above 70.0
AboveSeventy(f) == f.m > 70 * Pow10(f.e)

\* C19: the degraded flag of a response of Handle (ko and function) is true
\* exactly when the reading getPower returned, which is the reading in the
\* response, has undervoltage, freq_capped or throttled set or temp_c above 70.0;
\* a reading with nothing but last_error set (failed fetch, failed decode, no
\* backend address) gives degraded = false.
C19_DegradedFlag ==
    [][\A h \in Handlers :
          (/\ proxy.variant # "status"
           /\ proxy.h[h].pc = "respond"
           /\ proxy'.resp.by = h /\ proxy'.resp.status = 200) =>
             LET p == proxy.h[h].p
                 r == proxy'.resp.body
             IN  /\ r.power = p
                 /\ r.degraded <=>
                       (p.Undervoltage \/ p.FreqCapped \/ p.Throttled \/ AboveSeventy(p.TempC))
                 /\ p = [ZeroPower EXCEPT !.LastError = p.LastError] => ~r.degraded]_vars

\* package main of ko-function answers degraded = true for a reading of 70.1
\* degrees with no flag set
C19_Witness ==
    /\ proxy.variant = "ko"
    /\ proxy.resp.status = 200
    /\ proxy.resp.body.degraded
    /\ proxy.resp.body.power.TempC = [m |-> 701, e |-> 1]
    /\ ~proxy.resp.body.power.Undervoltage
    /\ ~proxy.resp.body.power.FreqCapped
    /\ ~proxy.resp.body.power.Throttled

\* ------------------------------------------------------- the eventing forwarder
\* package main of cloudevents-poller: a loop that fetches the status, sends an
\* event and sleeps.  Its state is the record fwd; its clock counts seconds.

\* time.ParseDuration for the texts the model draws: decimal digits followed by
\* one of the units s, m, h; the result in seconds
ParseDuration(s) ==
    LET n == Len(s)
    IN  IF /\ n >= 2
           /\ \A i \in 1..(n - 1) : s[i] \in Digits
           /\ s[n] \in {"s", "m", "h"}
        THEN [ok |-> TRUE,
              d |-> DigitsToNat(SubSeq(s, 1, n - 1))
                       * (CASE s[n] = "s" -> 1 [] s[n] = "m" -> 60 [] s[n] = "h" -> 3600)]
        ELSE [ok |-> FALSE, d |-> 0]

\* getenv(k, def) for a variable whose value is v (<<>>: unset or empty)
getenv(v, def) == IF v # <<>> THEN v ELSE def

\* values of PERIOD in the environment
Periods == {<<>>, <<"1", "0", "s">>, <<"2", "m">>, <<"s", "o", "o", "n">>}

\* p of main: the parsed PERIOD, 30 s when it does not parse
period(v) ==
    LET r == ParseDuration(getenv(v, <<"3", "0", "s">>))
    IN  IF r.ok THEN r.d ELSE 30

\* JSON objects the status endpoint answers with
ForwarderObjects ==
    {StatusObject(b, c, tod, tod = "day" /\ ~c, PresentText)
        : b \in {29, 30}, c \in BOOLEAN, tod \in {"day", "night"}}

\* PowerStatus{} of the forwarder (no LastError field)
ZeroForwarderStatus ==
    [NodeName |-> "", BatteryPercent |-> 0, IsCharging |-> FALSE, TimeOfDay |-> "",
     SolarAvailable |-> FALSE, LastUpdated |-> ""]

\* fetch(url): http.Get and Decode; an error when the endpoint does not answer
fetch ==
    {[err |-> <<"Get", "connection refused">>, ps |-> ZeroForwarderStatus]}
    \cup {[err |-> <<>>,
           ps |-> [NodeName |-> o.node_name, BatteryPercent |-> o.battery_percent,
                   IsCharging |-> o.is_charging, TimeOfDay |-> o.time_of_day,
                   SolarAvailable |-> o.solar_available, LastUpdated |-> o.last_updated]]
            : o \in ForwarderObjects}

\* shouldRun as it would be if a battery at 30 percent counted as low
shouldRunUpTo30(status) ==
    status.BatteryPercent <= 30 /\ status.TimeOfDay = "night" /\ ~status.IsCharging

\* status.BatteryPercent < 30 && status.TimeOfDay == "night" && !status.IsCharging
shouldRun(status) ==
    status.BatteryPercent < 30 /\ status.TimeOfDay = "night" /\ ~status.IsCharging

NoEvent == [sent |-> FALSE]

ForwarderInit ==
    /\ AgentNotRunning
    /\ proxy = NotRunning
    /\ \E v \in Periods :
          fwd = [pc |-> "fetch", p |-> period(v), clock |-> 1, iter |-> 0,
                 status |-> ZeroForwarderStatus, err |-> <<>>, ops |-> <<>>,
                 event |-> NoEvent]

\* status, err := fetch(target); on an error it is logged
LoopFetch ==
    /\ fwd.pc = "fetch"
    /\ fwd.iter < MaxIter
    /\ \E r \in fetch :
          fwd' = [fwd EXCEPT !.pc = IF r.err # <<>> THEN "sleep" ELSE "send",
                             !.status = r.ps, !.err = r.err,
                             !.ops = Append(@, "fetch"), !.event = NoEvent]
    /\ UNCHANGED <<agentVars, proxy>>

\* the event is built and c.Send is called; a failed delivery is logged
LoopSend ==
    /\ fwd.pc = "send"
    /\ \E delivered \in BOOLEAN :
          fwd' = [fwd EXCEPT
                    !.pc = "sleep",
                    !.ops = Append(@, "send"),
                    !.event = [sent |-> TRUE, delivered |-> delivered,
                               source |-> "power-poller", type |-> "dev.juliand.power.status",
                               time |-> fwd.clock,
                               should_run |-> shouldRun(fwd.status),
                               power_state |-> IF shouldRun(fwd.status) THEN "low" ELSE "ok",
                               node |-> fwd.status.NodeName,
                               data |-> fwd.status]]
    /\ UNCHANGED <<agentVars, proxy>>

\* time.Sleep(p), on either path, and the next iteration
LoopSleep ==
    /\ fwd.pc = "sleep"
    /\ fwd' = [fwd EXCEPT !.pc = "fetch", !.clock = @ + fwd.p, !.iter = @ + 1,
                          !.ops = <<>>, !.event = NoEvent]
    /\ UNCHANGED <<agentVars, proxy>>

ForwarderNext == LoopFetch \/ LoopSend \/ LoopSleep

ForwarderSpec == ForwarderInit /\ [][ForwarderNext]_vars

\* C20: in an iteration of the forwarder's loop the operations are one fetch, then
\* (only if the fetch succeeded) one send, then one sleep of the period, after
\* which the next iteration begins; a failed fetch sends nothing.  Every sent
\* event has should_run true exactly when the fetched status has battery_percent
\* below 30, time_of_day night and is_charging false, and power_state low when
\* should_run is true and ok otherwise.
C20_ForwarderLoop ==
    /\ [](/\ fwd.ops \in {<<>>, <<"fetch">>, <<"fetch", "send">>}
          /\ fwd.ops = <<"fetch", "send">> => fwd.err = <<>>
          /\ (fwd.ops = <<"fetch">> /\ fwd.err # <<>>) => (fwd.pc = "sleep" /\ ~fwd.event.sent)
          /\ fwd.event.sent =>
                /\ fwd.ops = <<"fetch", "send">>
                /\ fwd.event.data = fwd.status
                /\ fwd.event.should_run <=>
                      (/\ fwd.event.data.BatteryPercent \in 0..29
                       /\ fwd.event.data.TimeOfDay = "night"
                       /\ fwd.event.data.IsCharging = FALSE)
                /\ fwd.event.power_state = "low" <=> fwd.event.should_run
                /\ fwd.event.power_state = "ok" <=> ~fwd.event.should_run)
    /\ [][/\ fwd'.clock # fwd.clock =>
               /\ fwd'.clock = fwd.clock + fwd.p
               /\ fwd.ops \in {<<"fetch">>, <<"fetch", "send">>}
               /\ fwd'.ops = <<>> /\ fwd'.iter = fwd.iter + 1 /\ fwd'.pc = "fetch"
          /\ fwd'.iter # fwd.iter => fwd'.clock # fwd.clock
          /\ fwd.ops = <<"fetch", "send">> => fwd'.clock # fwd.clock]_vars

\* an event with should_run = true and power_state = low has been sent in the
\* second iteration, after a first iteration whose sleep took the default 30 s
C20_Witness ==
    /\ fwd.event.sent
    /\ fwd.iter = 1
    /\ fwd.clock = 31
    /\ fwd.event.should_run
    /\ fwd.event.power_state = "low"
    /\ fwd.event.data.BatteryPercent = 29

====
